---- MODULE Spec2Model ----
(***************************************************************************)
(* Model of odm/feature_extractor/normalizations.py (class Normalize):     *)
(* extract_pixels, _minmax_helper, minmax and get_norm.                    *)
(*                                                                         *)
(* Objects live in a heap (a sequence of objects, an address is an index)  *)
(* so that aliasing, copies and in-place updates are visible.  Integer     *)
(* pixel arrays carry their numpy dtype, whose scalars wrap at the dtype's *)
(* width; normalized arrays are float32, modelled bit-exactly as           *)
(* sign/mantissa/exponent with round-to-nearest-even.                      *)
(***************************************************************************)
EXTENDS Integers, Sequences, FiniteSets, TLC

VARIABLES heap, input, arg, kwargs, pc, op, norm_type, timing, ret, log

vars == <<heap, input, arg, kwargs, pc, op, norm_type, timing, ret, log>>

(***************************************************************************)
(* Bounds of the explored inputs.                                          *)
(***************************************************************************)
MaxPix == 2
MaxBins == 3

(***************************************************************************)
(* float32 (numpy.float32, IEEE-754 binary32, round to nearest even).      *)
(* A value is [cls, sign, mant, exp]: cls "fin" is                         *)
(* (-1)^sign * mant * 2^exp with 2^23 <= mant < 2^24; cls "zero" is a      *)
(* signed zero; "inf" a signed infinity; "nan" not-a-number.  The exponent *)
(* range is not limited: no value of the model leaves the normal range.    *)
(***************************************************************************)
MantBits == 24
HalfWord == 4096

RECURSIVE Pow2(_)
Pow2(k) == IF k = 0 THEN 1 ELSE 2 * Pow2(k - 1)

RECURSIVE BitLen(_)
BitLen(n) == IF n = 0 THEN 0 ELSE 1 + BitLen(n \div 2)

Xor(a, b) == IF a = b THEN 0 ELSE 1

FNaN == [cls |-> "nan", sign |-> 0, mant |-> 0, exp |-> 0]
FZero(s) == [cls |-> "zero", sign |-> s, mant |-> 0, exp |-> 0]
FInf(s) == [cls |-> "inf", sign |-> s, mant |-> 0, exp |-> 0]
FFin(s, m, e) == [cls |-> "fin", sign |-> s, mant |-> m, exp |-> e]

\* n * 2^e (plus, when sticky, a positive amount below one unit of n)
\* rounded to 24 significant bits, ties to even.
\* a mantissa that rounding carried up to 2^24 is renormalized
FCarry(s, m, e) ==
    IF m = Pow2(MantBits) THEN FFin(s, Pow2(MantBits - 1), e + 1) ELSE FFin(s, m, e)

\* q units and rem/(2*half) of a unit: up when above the half, or at the half
\* with q odd (with sticky the true remainder is strictly above rem)
FRoundUp(s, q, rem, half, e, sticky) ==
    IF (IF sticky THEN rem >= half ELSE rem > half \/ (rem = half /\ q % 2 = 1))
    THEN FCarry(s, q + 1, e)
    ELSE FCarry(s, q, e)

\* FRound for n of len bits
FRoundLen(s, n, e, sticky, len) ==
    IF n = 0 THEN FZero(s)
    ELSE IF len <= MantBits
    THEN FFin(s, n * Pow2(MantBits - len), e - (MantBits - len))
    ELSE FRoundUp(s, n \div Pow2(len - MantBits), n % Pow2(len - MantBits),
                  Pow2(len - MantBits - 1), e + (len - MantBits), sticky)

FRound(s, n, e, sticky) == FRoundLen(s, n, e, sticky, BitLen(n))

\* astype(np.float32) of an integer / conversion of an integer scalar operand
ToF32(n) == IF n < 0 THEN FRound(1, 0 - n, 0, FALSE) ELSE FRound(0, n, 0, FALSE)

FNeg(x) == IF x.cls = "nan" THEN x ELSE [x EXCEPT !.sign = 1 - x.sign]

\* |x| < |y| for finite or zero x, y
FMagLess(x, y) ==
    IF y.cls = "zero" THEN FALSE
    ELSE IF x.cls = "zero" THEN TRUE
    ELSE x.exp < y.exp \/ (x.exp = y.exp /\ x.mant < y.mant)

\* numeric x < y (false when either is NaN)
FLess(x, y) ==
    IF x.cls = "nan" \/ y.cls = "nan" THEN FALSE
    ELSE IF x.cls = "inf" THEN x.sign = 1 /\ ~(y.cls = "inf" /\ y.sign = 1)
    ELSE IF y.cls = "inf" THEN y.sign = 0
    ELSE IF x.cls = "zero" /\ y.cls = "zero" THEN FALSE
    ELSE IF x.cls = "zero" THEN y.sign = 0
    ELSE IF y.cls = "zero" THEN x.sign = 1
    ELSE IF x.sign # y.sign THEN x.sign = 1
    ELSE IF x.sign = 0 THEN FMagLess(x, y) ELSE FMagLess(y, x)

\* numeric equality (+0 == -0, NaN equals nothing)
FEq(x, y) ==
    /\ x.cls # "nan" /\ y.cls # "nan"
    /\ \/ x.cls = "zero" /\ y.cls = "zero"
       \/ x = y

\* x + y for finite nonzero x, y with |x| >= |y|: three guard bits and a
\* sticky flag for the bits of y shifted out.
\* X + Y or X - Y in units of 2^e, Y cut short when lost
FAddGuarded(s, same, X, Y, lost, e) ==
    IF same THEN FRound(s, X + Y, e, lost)
    ELSE IF X = Y /\ ~lost THEN FZero(0)
    ELSE FRound(s, IF lost THEN X - Y - 1 ELSE X - Y, e, lost)

\* y's mantissa with three guard bits, shifted right by d
FShifted(y, d) ==
    IF d >= MantBits + 3 THEN 0 ELSE (y.mant * 8) \div Pow2(d)
FShiftLost(y, d) ==
    IF d >= MantBits + 3 THEN TRUE ELSE (y.mant * 8) % Pow2(d) # 0

FAddAligned(x, y) ==
    FAddGuarded(x.sign, x.sign = y.sign, x.mant * 8,
                FShifted(y, x.exp - y.exp), FShiftLost(y, x.exp - y.exp),
                x.exp - 3)

FAdd(x, y) ==
    IF x.cls = "nan" \/ y.cls = "nan" THEN FNaN
    ELSE IF x.cls = "inf"
    THEN (IF y.cls = "inf" /\ y.sign # x.sign THEN FNaN ELSE x)
    ELSE IF y.cls = "inf" THEN y
    ELSE IF x.cls = "zero" /\ y.cls = "zero"
    THEN FZero(IF x.sign = 1 /\ y.sign = 1 THEN 1 ELSE 0)
    ELSE IF x.cls = "zero" THEN y
    ELSE IF y.cls = "zero" THEN x
    ELSE IF FMagLess(x, y) THEN FAddAligned(y, x) ELSE FAddAligned(x, y)

\* numpy subtract
FSub(x, y) == FAdd(x, FNeg(y))

\* floor(r * 2^k / d) and whether a remainder is left, one bit at a time
RECURSIVE LongDiv(_, _, _, _)
LongDiv(q, r, d, k) ==
    IF k = 0 THEN [q |-> q, inexact |-> r # 0]
    ELSE IF 2 * r >= d THEN LongDiv(2 * q + 1, 2 * r - d, d, k - 1)
    ELSE LongDiv(2 * q, 2 * r, d, k - 1)

\* the quotient bits r at exponent e, rounded
FQuotient(s, r, e) == FRound(s, r.q, e, r.inexact)

\* numpy true_divide
FDiv(x, y) ==
    IF x.cls = "nan" \/ y.cls = "nan" THEN FNaN
    ELSE IF x.cls = "inf"
    THEN (IF y.cls = "inf" THEN FNaN ELSE FInf(Xor(x.sign, y.sign)))
    ELSE IF y.cls = "inf" THEN FZero(Xor(x.sign, y.sign))
    ELSE IF y.cls = "zero"
    THEN (IF x.cls = "zero" THEN FNaN ELSE FInf(Xor(x.sign, y.sign)))
    ELSE IF x.cls = "zero" THEN FZero(Xor(x.sign, y.sign))
    ELSE FQuotient(Xor(x.sign, y.sign),
                   LongDiv(x.mant \div y.mant, x.mant % y.mant, y.mant, MantBits + 1),
                   x.exp - y.exp - (MantBits + 1))

\* hi * 2^24 + lo, with 2^22 <= hi < 2^24 and lo < 2^24, rounded: hi holds 24
\* bits, or 23 and takes one more from lo
FLimbs(s, hi, lo, e) ==
    IF hi >= Pow2(MantBits - 1)
    THEN FRoundUp(s, hi, lo, Pow2(MantBits - 1), e + MantBits, FALSE)
    ELSE FRoundUp(s, 2 * hi + (lo \div Pow2(MantBits - 1)), lo % Pow2(MantBits - 1),
                  Pow2(MantBits - 2), e + MantBits - 1, FALSE)

\* the low limb before its carry is taken out, from the middle and low terms
FLowSum(mid, low) == low + (mid % HalfWord) * HalfWord

\* (a * 2^12 + b) * (c * 2^12 + d) * 2^e
FProduct(s, a, b, c, d, e) ==
    FLimbs(s,
           a * c + ((a * d + b * c) \div HalfWord)
                 + (FLowSum(a * d + b * c, b * d) \div Pow2(MantBits)),
           FLowSum(a * d + b * c, b * d) % Pow2(MantBits),
           e)

\* numpy multiply: the 48-bit product of the mantissas in two 24-bit limbs
FMul(x, y) ==
    IF x.cls = "nan" \/ y.cls = "nan" THEN FNaN
    ELSE IF x.cls = "inf" \/ y.cls = "inf"
    THEN (IF x.cls = "zero" \/ y.cls = "zero" THEN FNaN
          ELSE FInf(Xor(x.sign, y.sign)))
    ELSE IF x.cls = "zero" \/ y.cls = "zero" THEN FZero(Xor(x.sign, y.sign))
    ELSE FProduct(Xor(x.sign, y.sign),
                  x.mant \div HalfWord, x.mant % HalfWord,
                  y.mant \div HalfWord, y.mant % HalfWord,
                  x.exp + y.exp)

(***************************************************************************)
(* Objects.  Every object is a record [kind, dtype, shape, data, ref]:     *)
(*   ndarray          dtype, shape and data (row-major elements: integers  *)
(*                    for an integer dtype, float32 values for "float32")  *)
(*   SimpleNamespace  ref is the address of its .pixels                    *)
(*   FileDataset      ref is the address of its .pixel_array               *)
(*   int, str         values of a type the class does not know             *)
(***************************************************************************)
NdArray(dt, sh, d) ==
    [kind |-> "ndarray", dtype |-> dt, shape |-> sh, data |-> d, ref |-> 0]
Wrapper(k, a) ==
    [kind |-> k, dtype |-> "", shape |-> <<>>, data |-> <<>>, ref |-> a]
Other(k) ==
    [kind |-> k, dtype |-> "", shape |-> <<>>, data |-> <<>>, ref |-> 0]

\* type(x) as the f-string prints it
TypeOf(o) ==
    CASE o.kind = "ndarray" -> "<class 'numpy.ndarray'>"
      [] o.kind = "SimpleNamespace" -> "<class 'types.SimpleNamespace'>"
      [] o.kind = "FileDataset" -> "<class 'pydicom.dataset.FileDataset'>"
      [] o.kind = "int" -> "<class 'int'>"
      [] o.kind = "str" -> "<class 'str'>"

(***************************************************************************)
(* numpy integer dtypes: a scalar of the dtype wraps at the dtype's width. *)
(***************************************************************************)
IsFloat(dt) == dt = "float32"
IsSigned(dt) == dt \in {"int8", "int32"}
IntBits(dt) == IF dt = "int32" THEN 32 ELSE 8

\* n reduced to the dtype's width.  Every number that can arise here from
\* int32 pixels (all within 0..2^18, see RoundingArray) lies inside the
\* 32-bit range, where the reduction leaves it as it is.
WrapInt(n, dt) ==
    IF IntBits(dt) = 32 THEN n
    ELSE LET m == Pow2(IntBits(dt)) IN
         IF IsSigned(dt) THEN ((n + m \div 2) % m) - m \div 2 ELSE n % m

\* A numpy scalar is [dtype, val].
Scalar(dt, v) == [dtype |-> dt, val |-> v]

RECURSIVE IntMax(_)
IntMax(d) ==
    IF Len(d) = 1 THEN d[1]
    ELSE LET m == IntMax(Tail(d)) IN IF d[1] >= m THEN d[1] ELSE m

RECURSIVE IntMin(_)
IntMin(d) ==
    IF Len(d) = 1 THEN d[1]
    ELSE LET m == IntMin(Tail(d)) IN IF d[1] <= m THEN d[1] ELSE m

\* float maximum / minimum; a NaN element makes the result NaN
RECURSIVE FloatMax(_)
FloatMax(d) ==
    IF Len(d) = 1 THEN d[1]
    ELSE LET m == FloatMax(Tail(d)) IN
         IF d[1].cls = "nan" \/ m.cls = "nan" THEN FNaN
         ELSE IF FLess(d[1], m) THEN m ELSE d[1]

RECURSIVE FloatMin(_)
FloatMin(d) ==
    IF Len(d) = 1 THEN d[1]
    ELSE LET m == FloatMin(Tail(d)) IN
         IF d[1].cls = "nan" \/ m.cls = "nan" THEN FNaN
         ELSE IF FLess(m, d[1]) THEN m ELSE d[1]

\* np.max(pixels), np.min(pixels): a scalar of the array's dtype
NpMax(a) ==
    Scalar(a.dtype, IF IsFloat(a.dtype) THEN FloatMax(a.data) ELSE IntMax(a.data))
NpMin(a) ==
    Scalar(a.dtype, IF IsFloat(a.dtype) THEN FloatMin(a.data) ELSE IntMin(a.data))

\* max_val - min_val: scalar arithmetic in the scalars' own dtype
ScalarSub(x, y) ==
    Scalar(x.dtype, IF IsFloat(x.dtype) THEN FSub(x.val, y.val)
                    ELSE WrapInt(x.val - y.val, x.dtype))

\* the scalar as the float32 operand of an in-place float32 operation
ScalarToF32(x) == IF IsFloat(x.dtype) THEN x.val ELSE ToF32(x.val)

\* pixels.astype(np.float32).copy(): a new float32 array of the same shape
AstypeF32Copy(a) ==
    NdArray("float32", a.shape,
            [i \in DOMAIN a.data |->
                IF IsFloat(a.dtype) THEN a.data[i] ELSE ToF32(a.data[i])])

\* a -= s, a /= s, a *= s on the array at address n
ISubtract(h, n, s) ==
    [h EXCEPT ![n].data = [i \in DOMAIN @ |-> FSub(@[i], s)]]
IDivide(h, n, s) ==
    [h EXCEPT ![n].data = [i \in DOMAIN @ |-> FDiv(@[i], s)]]
IMultiply(h, n, s) ==
    [h EXCEPT ![n].data = [i \in DOMAIN @ |-> FMul(@[i], s)]]

(***************************************************************************)
(* kwargs: a function from option names to values; kwargs.get(k, default)  *)
(***************************************************************************)
DefaultBins == 256
NoKwargs == [k \in {} |-> 0]
BinsKwarg(b) == [k \in {"bins"} |-> b]
KwargsGet(kw, k, default) == IF k \in DOMAIN kw THEN kw[k] ELSE default

(***************************************************************************)
(* Normalize._minmax_helper(pixels, **kwargs), on heap h with pixels the   *)
(* array at address p: the heap afterwards and the address returned.       *)
(***************************************************************************)
\* lines 86-88 on the array normalized_pixels at address n
Rescale(h, n, bins, max_val, min_val) ==
    IMultiply(IDivide(ISubtract(h, n, ScalarToF32(min_val)),
                      n, ScalarToF32(ScalarSub(max_val, min_val))),
              n, ToF32(bins - 1))

\* a broken variant that rescales the received array itself (no copy)
_minmax_helper_inplace(h, p, kw) ==
    [heap |-> Rescale([h EXCEPT ![p] = AstypeF32Copy(h[p])], p,
                      KwargsGet(kw, "bins", DefaultBins), NpMax(h[p]), NpMin(h[p])),
     ref |-> p]

\* a broken variant that only copies an array whose minimum is already 0 and
\* whose maximum is already bins - 1
_minmax_helper_once(h, p, kw) ==
    IF /\ FEq(ScalarToF32(NpMin(h[p])), ToF32(0))
       /\ FEq(ScalarToF32(NpMax(h[p])),
              ToF32(KwargsGet(kw, "bins", DefaultBins) - 1))
    THEN [heap |-> Append(h, AstypeF32Copy(h[p])), ref |-> Len(h) + 1]
    ELSE [heap |-> Rescale(Append(h, AstypeF32Copy(h[p])), Len(h) + 1,
                           KwargsGet(kw, "bins", DefaultBins),
                           NpMax(h[p]), NpMin(h[p])),
          ref |-> Len(h) + 1]

_minmax_helper(h, p, kw) ==
    [heap |-> Rescale(Append(h, AstypeF32Copy(h[p])), Len(h) + 1,
                      KwargsGet(kw, "bins", DefaultBins), NpMax(h[p]), NpMin(h[p])),
     ref |-> Len(h) + 1]

(***************************************************************************)
(* What a call does: it returns a value or raises.  A returned value is a  *)
(* list of addresses, with aux "None" when the call returns the pair       *)
(* (list, None) and "" when it returns the list alone.                     *)
(***************************************************************************)
Returned(v, aux) ==
    [status |-> "return", value |-> v, aux |-> aux, exc |-> "", msg |-> ""]
Raised(e, m) ==
    [status |-> "raise", value |-> <<>>, aux |-> "", exc |-> e, msg |-> m]
NoRet == [status |-> "", value |-> <<>>, aux |-> "", exc |-> "", msg |-> ""]

\* The argument `images`: a Python list of objects, or one object.
ListArg(items) == [tag |-> "list", items |-> items, ref |-> 0]
ObjArg(a) == [tag |-> "obj", items |-> <<>>, ref |-> a]

\* logger.info records, the elapsed time left out
LogExtract == "Extract pixels: %s"
LogMinmax == "minmax: %s"
LogGetNorm == "get_norm: %s"
LogIf(t, rec) == IF t THEN <<rec>> ELSE <<>>

(***************************************************************************)
(* Normalize.extract_pixels(images, timing)                                *)
(***************************************************************************)
\* a broken variant that keeps the record instead of its .pixels
PixelsOf_wrapper(h, a) == a

\* the payload appended for an ndarray or SimpleNamespace at address a
PixelsOf(h, a) == IF h[a].kind = "SimpleNamespace" THEN h[a].ref ELSE a

\* the loop over a list argument
RECURSIVE ExtractLoop(_, _, _, _)
ExtractLoop(h, items, i, pixels) ==
    IF i > Len(items) THEN Returned(pixels, "")
    ELSE LET image == items[i] IN
         IF h[image].kind = "ndarray" \/ h[image].kind = "SimpleNamespace"
         THEN ExtractLoop(h, items, i + 1, Append(pixels, PixelsOf(h, image)))
         ELSE IF h[image].kind = "FileDataset"
         THEN ExtractLoop(h, items, i + 1, Append(pixels, h[image].ref))
         ELSE Raised("TypeError",
                     <<"Unknown type of images: ", TypeOf(h[image])>>)

\* a broken variant whose single-object branch also takes a FileDataset
ExtractSingle_dataset(h, images) ==
    IF h[images.ref].kind = "ndarray" \/ h[images.ref].kind = "SimpleNamespace"
    THEN Returned(<<PixelsOf(h, images.ref)>>, "")
    ELSE IF h[images.ref].kind = "FileDataset"
    THEN Returned(<<h[images.ref].ref>>, "")
    ELSE Raised("TypeError",
                <<"Unknown type of images: ", TypeOf(h[images.ref])>>)

\* the branch for an argument that is not a list
ExtractSingle(h, images) ==
    IF h[images.ref].kind = "ndarray" \/ h[images.ref].kind = "SimpleNamespace"
    THEN Returned(<<PixelsOf(h, images.ref)>>, "")
    ELSE Raised("TypeError",
                <<"Unknown type of images: ", TypeOf(h[images.ref])>>)

\* what the call did once its branch ended as r: the record is logged only
\* when the end of the function is reached
ExtractEnd(r, h, t) ==
    [res |-> r, heap |-> h,
     log |-> IF r.status = "return" THEN LogIf(t, LogExtract) ELSE <<>>]

extract_pixels(h, images, t) ==
    ExtractEnd(IF images.tag = "list"
               THEN ExtractLoop(h, images.items, 1, <<>>)
               ELSE ExtractSingle(h, images),
               h, t)

(***************************************************************************)
(* Normalize.minmax(pixels, timing, **kwargs)                              *)
(***************************************************************************)
\* a broken variant that special-cases a constant image (all zeros)
MinmaxOne_guarded(h, p, kw) ==
    IF NpMax(h[p]) = NpMin(h[p])
    THEN [heap |-> Append(h, NdArray("float32", h[p].shape,
                                     [i \in DOMAIN h[p].data |-> FZero(0)])),
          ref |-> Len(h) + 1]
    ELSE _minmax_helper(h, p, kw)

\* one element of the list comprehension: Normalize._minmax_helper(p, **kwargs)
MinmaxOne(h, p, kw) == _minmax_helper(h, p, kw)

\* the list comprehension: _minmax_helper on each array, in order
RECURSIVE MinmaxEach(_, _, _, _, _)
RECURSIVE MinmaxCollect(_, _, _, _, _)
MinmaxCollect(r, pixels, i, kw, out) ==
    MinmaxEach(r.heap, pixels, i + 1, kw, Append(out, r.ref))

MinmaxEach(h, pixels, i, kw, out) ==
    IF i > Len(pixels) THEN [heap |-> h, value |-> out]
    ELSE MinmaxCollect(MinmaxOne(h, pixels[i], kw), pixels, i, kw, out)

\* return normalized_pixels, None (with the record when timing)
MinmaxEnd(r, t) ==
    [res |-> Returned(r.value, "None"), heap |-> r.heap,
     log |-> LogIf(t, LogMinmax)]

minmax(h, pixels, t, kw) == MinmaxEnd(MinmaxEach(h, pixels, 1, kw, <<>>), t)

(***************************************************************************)
(* norm_type is a string, modelled as its sequence of characters.          *)
(***************************************************************************)
UpperCase == <<"A", "B", "C", "D", "E", "F", "G", "H", "I", "J", "K", "L", "M",
               "N", "O", "P", "Q", "R", "S", "T", "U", "V", "W", "X", "Y", "Z">>
LowerCase == <<"a", "b", "c", "d", "e", "f", "g", "h", "i", "j", "k", "l", "m",
               "n", "o", "p", "q", "r", "s", "t", "u", "v", "w", "x", "y", "z">>

LowerChar(c) ==
    IF \E i \in DOMAIN UpperCase : UpperCase[i] = c
    THEN LowerCase[CHOOSE i \in DOMAIN UpperCase : UpperCase[i] = c]
    ELSE c

\* a broken variant that looks the name up as given
Lower_asis(s) == s

\* str.lower()
Lower(s) == [i \in DOMAIN s |-> LowerChar(s[i])]

\* the registry {"minmax": Normalize.minmax, "min-max": Normalize.minmax}
KeyMinmax == <<"m", "i", "n", "m", "a", "x">>
KeyMinMax == <<"m", "i", "n", "-", "m", "a", "x">>

\* a broken variant that falls back to minmax for an unknown name
RegistryGet_default(key) == "minmax"

\* dict.get(key): the function registered under key, or "None"
RegistryGet(key) ==
    IF key = KeyMinmax \/ key = KeyMinMax THEN "minmax" ELSE "None"

(***************************************************************************)
(* Normalize.get_norm(pixels, norm_type, timing, **kwargs)                 *)
(***************************************************************************)
\* a broken variant that hands timing on to extract_pixels
GetNormExtract_timed(h, images, t) == extract_pixels(h, images, t)

\* pixels = Normalize.extract_pixels(pixels): timing is left at its default
GetNormExtract(h, images, t) == extract_pixels(h, images, FALSE)

\* return normalized_pixels, None (with the record when timing), after the
\* extraction e and the normalization r
GetNormEnd(e, r, t) ==
    [res |-> Returned(r.res.value, "None"), heap |-> r.heap,
     log |-> e.log \o r.log \o LogIf(t, LogGetNorm)]

\* lines 154-165, after the extraction e
GetNormDispatch(e, norm_func, t, kw) ==
    IF e.res.status = "raise" THEN e
    ELSE IF norm_func = "None"
    THEN [res |-> Raised("ValueError", <<"Invalid normalization type">>),
          heap |-> e.heap, log |-> e.log]
    ELSE GetNormEnd(e, minmax(e.heap, e.res.value, t, kw), t)

get_norm(h, images, nt, t, kw) ==
    GetNormDispatch(GetNormExtract(h, images, t), RegistryGet(Lower(nt)), t, kw)

(***************************************************************************)
(* The inputs explored.                                                    *)
(***************************************************************************)
ArrayLens == {1, 2}
ListLens == {0, 1, 2}

\* every uint8 array of one of the lengths with pixels in 0..MaxPix
GenArrays ==
    UNION {{NdArray("uint8", <<n>>, d) : d \in [1..n -> 0..MaxPix]} : n \in ArrayLens}

\* the 2x2 image of the documented scenario, and a signed image whose value
\* range exceeds what its dtype can hold
ScenarioArray == NdArray("uint8", <<2, 2>>, <<0, 10, 20, 30>>)
WideArray == NdArray("int8", <<2>>, <<-128, 127>>)
NamedArrays == {ScenarioArray, WideArray}

\* an int32 image and a number of bins for which the float32 operations of
\* lines 86-88 round: 172961 / 262144 * 97 lies halfway between two float32
\* values
RoundingArray == NdArray("int32", <<3>>, <<0, 172961, 262144>>)
RoundingBins == 98

Element(k, a) == [kind |-> k, arr |-> a]
Elements ==
    {Element("ndarray", a) : a \in GenArrays \cup NamedArrays \cup {RoundingArray}}
    \cup {Element(k, a) : k \in {"SimpleNamespace", "FileDataset"}, a \in NamedArrays}
    \cup {Element(k, Other(k)) : k \in {"int", "str"}}

BinsValues == (1..MaxBins) \cup {RoundingBins, DefaultBins}
KwargsValues == {NoKwargs} \cup {BinsKwarg(b) : b \in BinsValues}

NormTypes ==
    { <<"m", "i", "n", "m", "a", "x">>,
      <<"M", "i", "n", "M", "a", "x">>,
      <<"M", "I", "N", "-", "M", "A", "X">>,
      <<"m", "i", "n", "-", "m", "a", "x">>,
      <<"b", "o", "g", "u", "s">> }

\* The objects of the elements es[i..], allocated in order after h: an array
\* (or unknown value) takes one address, a record or dataset two (its array,
\* then itself).  Yields the heap and the elements' addresses.
RECURSIVE Allocate(_, _, _, _)
Allocate(es, i, h, refs) ==
    IF i > Len(es) THEN [heap |-> h, refs |-> refs]
    ELSE IF es[i].kind \in {"SimpleNamespace", "FileDataset"}
    THEN Allocate(es, i + 1,
                  h \o <<es[i].arr, Wrapper(es[i].kind, Len(h) + 1)>>,
                  Append(refs, Len(h) + 2))
    ELSE Allocate(es, i + 1, Append(h, es[i].arr), Append(refs, Len(h) + 1))

Init ==
    /\ \E n \in ListLens : \E es \in [1..n -> Elements] : \E single \in BOOLEAN :
          LET a == Allocate(es, 1, <<>>, <<>>) IN
          /\ single => n = 1
          /\ heap = a.heap
          /\ input = IF single THEN ObjArg(a.refs[1]) ELSE ListArg(a.refs)
    /\ arg = input
    /\ kwargs \in KwargsValues
    /\ pc = "start"
    /\ op = ""
    /\ norm_type = <<>>
    /\ timing = FALSE
    /\ ret = NoRet
    /\ log = <<>>

(***************************************************************************)
(* The calls.  input is what the caller holds, arg the argument of the     *)
(* latest call, ret what that call did, log the records it emitted.        *)
(***************************************************************************)
Done(r, next) ==
    /\ heap' = r.heap
    /\ ret' = r.res
    /\ log' = r.log
    /\ pc' = IF r.res.status = "return" THEN next ELSE "failed"

\* extract_pixels(images, timing) on the input
ExtractPixels ==
    /\ pc = "start"
    /\ \E t \in BOOLEAN :
          /\ Done(extract_pixels(heap, arg, t), "extracted")
          /\ timing' = t
    /\ op' = "extract_pixels"
    /\ UNCHANGED <<input, arg, kwargs, norm_type>>

\* minmax(pixels, timing, **kwargs) on the list the previous call returned:
\* the arrays extract_pixels extracted, or (a second pass) the arrays minmax
\* normalized
MinMax ==
    /\ pc = "extracted" \/ (pc = "normalized" /\ op = "minmax")
    /\ \E t \in BOOLEAN :
          /\ Done(minmax(heap, ret.value, t, kwargs),
                  IF pc = "extracted" THEN "normalized" ELSE "renormalized")
          /\ timing' = t
    /\ arg' = ListArg(ret.value)
    /\ op' = "minmax"
    /\ UNCHANGED <<input, kwargs, norm_type>>

\* get_norm(images, norm_type, timing, **kwargs) on the input
GetNorm ==
    /\ pc = "start"
    /\ \E nt \in NormTypes : \E t \in BOOLEAN :
          /\ Done(get_norm(heap, arg, nt, t, kwargs), "normalized")
          /\ norm_type' = nt
          /\ timing' = t
    /\ op' = "get_norm"
    /\ UNCHANGED <<input, arg, kwargs>>

Next == ExtractPixels \/ MinMax \/ GetNorm

Spec == Init /\ [][Next]_vars

(***************************************************************************)
(* Vocabulary of the properties, stated on the objects themselves.         *)
(***************************************************************************)
SupportedInList(o) == o.kind \in {"ndarray", "SimpleNamespace", "FileDataset"}
SupportedAlone(o) == o.kind \in {"ndarray", "SimpleNamespace"}

InputSupported ==
    IF input.tag = "list"
    THEN \A i \in DOMAIN input.items : SupportedInList(heap[input.items[i]])
    ELSE SupportedAlone(heap[input.ref])

\* the address of the pixel payload of the supported object at address a
Payload(a) == IF heap[a].kind = "ndarray" THEN a ELSE heap[a].ref

\* the addresses of the input's pixel arrays, in order
InputPixels ==
    IF input.tag = "list"
    THEN [i \in DOMAIN input.items |-> Payload(input.items[i])]
    ELSE <<Payload(input.ref)>>

Bins == IF "bins" \in DOMAIN kwargs THEN kwargs["bins"] ELSE 256

Values(a) == {a.data[p] : p \in DOMAIN a.data}
TrueMin(a) == CHOOSE m \in Values(a) : \A v \in Values(a) : m <= v
TrueMax(a) == CHOOSE m \in Values(a) : \A v \in Values(a) : m >= v
NonDegenerate(a) == TrueMin(a) # TrueMax(a)
RangeFitsDtype(a) == WrapInt(TrueMax(a) - TrueMin(a), a.dtype) = TrueMax(a) - TrueMin(a)

\* (v - lo) / (hi - lo) * (b - 1), each step rounded to float32
Rescaled(v, lo, hi, b) ==
    FMul(FDiv(ToF32(v - lo), ToF32(hi - lo)), ToF32(b - 1))

\* the float32 array x is A rescaled by A's own minimum and maximum
IsRescaled(x, A, b) ==
    /\ x.kind = "ndarray" /\ x.dtype = "float32" /\ x.shape = A.shape
    /\ DOMAIN x.data = DOMAIN A.data
    /\ \A p \in DOMAIN A.data :
          FEq(x.data[p], Rescaled(A.data[p], TrueMin(A), TrueMax(A), b))

\* numeric bounds of a float32 array
AllWithin(x, lo, hi) ==
    \A p \in DOMAIN x.data : ~FLess(x.data[p], lo) /\ ~FLess(hi, x.data[p])
Attains(x, v) == \E p \in DOMAIN x.data : FEq(x.data[p], v)

AfterGetNormMinmax ==
    /\ pc \in {"normalized", "failed"}
    /\ op = "get_norm"
    /\ norm_type = KeyMinmax

(***************************************************************************)
(* C1: for a list of n supported inputs with non-degenerate pixel arrays,  *)
(* get_norm(list, 'minmax', bins) returns (out, None), out has n arrays    *)
(* and out[i][p] = (A_i[p] - min A_i) / (max A_i - min A_i) * (bins - 1),  *)
(* min and max taken over A_i alone; [[0,10],[20,30]] with bins 256 gives  *)
(* [[0,85],[170,255]].                                                     *)
(***************************************************************************)
C1_MinmaxFormula ==
    (/\ AfterGetNormMinmax
     /\ input.tag = "list"
     /\ InputSupported
     /\ \A i \in DOMAIN InputPixels : NonDegenerate(heap[InputPixels[i]]))
    => /\ ret.status = "return" /\ ret.aux = "None"
       /\ Len(ret.value) = Len(input.items)
       /\ \A i \in DOMAIN InputPixels :
             /\ IsRescaled(heap[ret.value[i]], heap[InputPixels[i]], Bins)
             /\ (heap[InputPixels[i]] = ScenarioArray /\ Bins = 256)
                => heap[ret.value[i]].data
                     = <<ToF32(0), ToF32(85), ToF32(170), ToF32(255)>>

\* C1 holds of every array whose value range its dtype can represent.
C1_WhenRangeFits ==
    (/\ AfterGetNormMinmax
     /\ input.tag = "list"
     /\ InputSupported
     /\ \A i \in DOMAIN InputPixels :
           NonDegenerate(heap[InputPixels[i]]) /\ RangeFitsDtype(heap[InputPixels[i]]))
    => /\ ret.status = "return" /\ ret.aux = "None"
       /\ Len(ret.value) = Len(input.items)
       /\ \A i \in DOMAIN InputPixels :
             /\ IsRescaled(heap[ret.value[i]], heap[InputPixels[i]], Bins)
             /\ (heap[InputPixels[i]] = ScenarioArray /\ Bins = 256)
                => heap[ret.value[i]].data
                     = <<ToF32(0), ToF32(85), ToF32(170), ToF32(255)>>

(***************************************************************************)
(* C2: for a non-degenerate array A and bins > 1 the result of minmax has  *)
(* the shape of A, minimum exactly 0 and maximum exactly bins - 1, so      *)
(* every value lies in [0, bins - 1].                                      *)
(***************************************************************************)
FirstPassOfInput ==
    /\ pc = "normalized"
    /\ ret.status = "return"
    /\ Len(ret.value) = Len(InputPixels)

InRange(x, A, b) ==
    /\ x.shape = A.shape /\ Len(x.data) = Len(A.data)
    /\ AllWithin(x, ToF32(0), ToF32(b - 1))
    /\ Attains(x, ToF32(0))
    /\ Attains(x, ToF32(b - 1))

C2_OutputRange ==
    (FirstPassOfInput /\ Bins > 1)
    => \A i \in DOMAIN ret.value :
          NonDegenerate(heap[InputPixels[i]])
          => InRange(heap[ret.value[i]], heap[InputPixels[i]], Bins)

\* C2 holds of every array whose value range its dtype can represent.
C2_WhenRangeFits ==
    (FirstPassOfInput /\ Bins > 1)
    => \A i \in DOMAIN ret.value :
          (NonDegenerate(heap[InputPixels[i]]) /\ RangeFitsDtype(heap[InputPixels[i]]))
          => InRange(heap[ret.value[i]], heap[InputPixels[i]], Bins)

(***************************************************************************)
(* C3 (as stated): get_norm with an unregistered norm_type fails with the  *)
(* invalid-normalization-type error (ValueError) for any input whatsoever, *)
(* also one that is not a supported image.                                 *)
(***************************************************************************)
Registered(nt) == Lower(nt) \in {KeyMinmax, KeyMinMax}
InvalidNormType == Raised("ValueError", <<"Invalid normalization type">>)

\* the object whose type extract_pixels rejects first
FirstOffender ==
    IF input.tag = "list"
    THEN LET bad == {i \in DOMAIN input.items : ~SupportedInList(heap[input.items[i]])}
         IN heap[input.items[CHOOSE i \in bad : \A j \in bad : i <= j]]
    ELSE heap[input.ref]
UnsupportedType ==
    Raised("TypeError", <<"Unknown type of images: ", TypeOf(FirstOffender)>>)

AfterGetNorm == pc \in {"normalized", "failed"} /\ op = "get_norm"

C3_AnyInput ==
    (AfterGetNorm /\ ~Registered(norm_type)) => ret = InvalidNormType

(***************************************************************************)
(* C3 (amended): with an unregistered norm_type, get_norm fails with the   *)
(* invalid-normalization-type error for every supported input; for an      *)
(* input extract_pixels rejects, the extraction, which runs first, fails   *)
(* with the unsupported-type error (TypeError) instead.                    *)
(***************************************************************************)
C3_ExtractionFirst ==
    (AfterGetNorm /\ ~Registered(norm_type))
    => /\ pc = "failed"
       /\ ret = IF InputSupported THEN InvalidNormType ELSE UnsupportedType

C3_Witness ==
    /\ AfterGetNorm
    /\ norm_type = <<"b", "o", "g", "u", "s">>
    /\ input.tag = "list" /\ Len(input.items) = 2
    /\ InputSupported
    /\ ret.exc = "ValueError"

(***************************************************************************)
(* C4: get_norm resolves norm_type case-insensitively: "minmax", "MinMax", *)
(* "MIN-MAX" and "min-max" all give the outcome of the one min-max         *)
(* algorithm on the extracted arrays (or the extraction's error), hence    *)
(* the same outcome as each other.                                         *)
(***************************************************************************)
MinmaxNames ==
    { <<"m", "i", "n", "m", "a", "x">>,
      <<"M", "i", "n", "M", "a", "x">>,
      <<"M", "I", "N", "-", "M", "A", "X">>,
      <<"m", "i", "n", "-", "m", "a", "x">> }

C4_CaseInsensitive ==
    [][(pc = "start" /\ op' = "get_norm" /\ norm_type' \in MinmaxNames)
       => IF InputSupported
          THEN LET m == minmax(heap, InputPixels, timing', kwargs)
               IN ret' = m.res /\ heap' = m.heap
          ELSE ret' = UnsupportedType /\ heap' = heap]_vars

C4_Witness ==
    /\ AfterGetNorm
    /\ norm_type = <<"M", "I", "N", "-", "M", "A", "X">>
    /\ ret.status = "return"
    /\ Len(ret.value) = 2

(***************************************************************************)
(* C6: extract_pixels on a list of supported elements returns a list of    *)
(* the same length whose i-th entry is the pixel payload of the i-th       *)
(* element (the array itself, the record's .pixels, the dataset's          *)
(* pixel_array); a list of raw arrays comes back unchanged; a single       *)
(* record w gives [w.pixels].                                              *)
(***************************************************************************)
PixelField(o, a) ==
    CASE o.kind = "ndarray" -> a
      [] o.kind = "SimpleNamespace" -> o.ref
      [] o.kind = "FileDataset" -> o.ref

AfterExtract == pc \in {"extracted", "failed"} /\ op = "extract_pixels"

C6_ExtractPayloads ==
    (AfterExtract /\ InputSupported)
    => /\ ret.status = "return"
       /\ IF input.tag = "list"
          THEN /\ Len(ret.value) = Len(input.items)
               /\ \A i \in DOMAIN input.items :
                     ret.value[i] = PixelField(heap[input.items[i]], input.items[i])
               /\ (\A i \in DOMAIN input.items : heap[input.items[i]].kind = "ndarray")
                  => ret.value = input.items
          ELSE ret.value = <<PixelField(heap[input.ref], input.ref)>>

C6_Witness ==
    /\ AfterExtract
    /\ ret.status = "return"
    /\ input.tag = "list" /\ Len(input.items) = 2
    /\ heap[input.items[1]].kind = "SimpleNamespace"
    /\ heap[input.items[2]].kind = "FileDataset"

(***************************************************************************)
(* C7: extract_pixels fails with the unsupported-type error exactly when   *)
(* the input is a single value that is neither array nor record, or a list *)
(* with an element that is not array, record or dataset (42 fails, a bare  *)
(* dataset fails, the dataset inside a list passes); it then returns no    *)
(* partial list and reports the type of the first offending element.       *)
(***************************************************************************)
C7_UnsupportedType ==
    AfterExtract
    => /\ (ret.status = "raise") <=> ~InputSupported
       /\ (ret.status = "raise") => ret = UnsupportedType
       /\ (input.tag = "obj" /\ heap[input.ref].kind \in {"int", "FileDataset"})
          => ret.exc = "TypeError"
       /\ (input.tag = "list"
           /\ \A i \in DOMAIN input.items : heap[input.items[i]].kind = "FileDataset")
          => ret.status = "return"

C7_Witness ==
    /\ AfterExtract
    /\ input.tag = "list" /\ Len(input.items) = 2
    /\ heap[input.items[1]].kind = "str"
    /\ heap[input.items[2]].kind = "int"
    /\ ret.exc = "TypeError"
    /\ ret.msg[2] = "<class 'str'>"

(***************************************************************************)
(* C5: minmax is not idempotent.  With the same bins > 1, a second         *)
(* application to the normalized array x of a non-degenerate A rescales    *)
(* the values again, (x[p] - min x) / (max x - min x) * (bins - 1) with    *)
(* each step rounded to float32, and there is an A for which the result    *)
(* differs from x: for A = [0, 172961, 262144] and bins = 98, x is         *)
(* [0, 64, 97] (minimum 0, maximum bins - 1) and the second result is not  *)
(* x.                                                                      *)
(***************************************************************************)
SecondPass ==
    /\ pc = "renormalized"
    /\ Len(arg.items) = Len(InputPixels)
    /\ Len(ret.value) = Len(InputPixels)

\* least and greatest value of a float32 array without NaN
FLeast(x) == CHOOSE m \in Values(x) : \A v \in Values(x) : ~FLess(v, m)
FGreatest(x) == CHOOSE m \in Values(x) : \A v \in Values(x) : ~FLess(m, v)

\* (v - lo) / (hi - lo) * (b - 1) on float32 values, each step rounded
RescaledAgain(v, lo, hi, b) ==
    FMul(FDiv(FSub(v, lo), FSub(hi, lo)), ToF32(b - 1))

Normalized(x, b) ==
    /\ AllWithin(x, ToF32(0), ToF32(b - 1))
    /\ Attains(x, ToF32(0))
    /\ Attains(x, ToF32(b - 1))

C5_NotIdempotent ==
    (SecondPass /\ Bins > 1)
    => \A i \in DOMAIN ret.value :
          LET A == heap[InputPixels[i]]
              x == heap[arg.items[i]]
              y == heap[ret.value[i]]
          IN NonDegenerate(A)
             => /\ y.kind = "ndarray" /\ y.dtype = "float32"
                /\ y.shape = x.shape
                /\ DOMAIN y.data = DOMAIN x.data
                /\ \A p \in DOMAIN x.data :
                      y.data[p] = RescaledAgain(x.data[p], FLeast(x),
                                                FGreatest(x), Bins)
                /\ (A = RoundingArray /\ Bins = RoundingBins)
                   => /\ Normalized(x, Bins)
                      /\ \E p \in DOMAIN x.data : ~FEq(y.data[p], x.data[p])

\* the second pass turned the 64.0 of the first into 63.999996
C5_Witness ==
    /\ SecondPass
    /\ Bins = RoundingBins
    /\ \E i \in DOMAIN ret.value :
          /\ heap[InputPixels[i]] = RoundingArray
          /\ heap[arg.items[i]].data = <<ToF32(0), ToF32(64), ToF32(97)>>
          /\ heap[ret.value[i]].data
               = <<ToF32(0), FFin(0, 16777215, -18), ToF32(97)>>

(***************************************************************************)
(* C8: no call mutates its inputs: every object that existed before a call *)
(* holds the same values after it, returned or failed; the arrays minmax   *)
(* and get_norm return are new objects, only extract_pixels returns the    *)
(* original arrays themselves.                                             *)
(***************************************************************************)
C8_NoMutation ==
    [][/\ input' = input
       /\ DOMAIN heap \subseteq DOMAIN heap'
       /\ \A a \in DOMAIN heap : heap'[a] = heap[a]
       /\ (op' \in {"minmax", "get_norm"} /\ ret'.status = "return" /\ pc' # pc)
          => /\ \A i \in DOMAIN ret'.value : ret'.value[i] \notin DOMAIN heap
             /\ \A i, j \in DOMAIN ret'.value :
                   ret'.value[i] = ret'.value[j] => i = j
       /\ (op' = "extract_pixels" /\ pc' # pc)
          => /\ heap' = heap
             /\ \A i \in DOMAIN ret'.value : ret'.value[i] \in DOMAIN heap]_vars

C8_Witness ==
    /\ pc = "normalized" /\ op = "get_norm"
    /\ Len(ret.value) = 2
    /\ \A i \in DOMAIN ret.value : \A j \in DOMAIN InputPixels :
          ret.value[i] # InputPixels[j]
    /\ heap[InputPixels[1]] = ScenarioArray

(***************************************************************************)
(* C9: the timing flag never affects the outcome: each call returns or     *)
(* raises with timing what it does without; only the log records differ,   *)
(* and get_norm never emits the extraction's record.                       *)
(***************************************************************************)
C9_TimingNoEffect ==
    [][/\ (pc = "start" /\ op' = "extract_pixels")
          => LET o == extract_pixels(heap, arg, FALSE)
             IN /\ ret' = o.res /\ heap' = o.heap
                /\ log' = IF timing' /\ ret'.status = "return"
                          THEN <<LogExtract>> ELSE <<>>
       /\ (op' = "minmax" /\ pc' # pc)
          => LET o == minmax(heap, ret.value, FALSE, kwargs)
             IN /\ ret' = o.res /\ heap' = o.heap
                /\ log' = IF timing' THEN <<LogMinmax>> ELSE <<>>
       /\ (pc = "start" /\ op' = "get_norm")
          => LET o == get_norm(heap, arg, norm_type', FALSE, kwargs)
             IN /\ ret' = o.res /\ heap' = o.heap
                /\ \A k \in DOMAIN log' : log'[k] # LogExtract
                /\ log' = IF timing' /\ ret'.status = "return"
                          THEN <<LogMinmax, LogGetNorm>> ELSE <<>>]_vars

C9_Witness ==
    /\ AfterGetNorm
    /\ timing
    /\ ret.status = "return" /\ Len(ret.value) = 1
    /\ log = <<LogMinmax, LogGetNorm>>

(***************************************************************************)
(* C10: for a constant array (max = min) _minmax_helper divides by zero    *)
(* unguarded: no error is raised, the call returns an array of the input's *)
(* shape filled with NaN, and the other arrays of the list get the values  *)
(* they get on their own, in order (the rescaled values, when the array's  *)
(* range fits its dtype).                                                  *)
(***************************************************************************)
AfterNormalizing ==
    \/ op = "minmax" /\ pc \in {"normalized", "failed"}
    \/ AfterGetNorm /\ Registered(norm_type) /\ InputSupported

Alone(A) == LET r == _minmax_helper(<<A>>, 1, kwargs) IN r.heap[r.ref]

C10_ConstantArray ==
    AfterNormalizing
    => /\ ret.status = "return"
       /\ Len(ret.value) = Len(InputPixels)
       /\ \A i \in DOMAIN ret.value :
             LET A == heap[InputPixels[i]]
                 x == heap[ret.value[i]]
             IN IF NonDegenerate(A)
                THEN /\ x = Alone(A)
                     /\ RangeFitsDtype(A) => IsRescaled(x, A, Bins)
                ELSE /\ x.dtype = "float32" /\ x.shape = A.shape
                     /\ Len(x.data) = Len(A.data)
                     /\ \A p \in DOMAIN x.data : x.data[p].cls = "nan"

C10_Witness ==
    /\ AfterNormalizing
    /\ ret.status = "return" /\ Len(ret.value) = 2
    /\ heap[InputPixels[1]].data = <<1, 1>>
    /\ heap[ret.value[1]].data = <<FNaN, FNaN>>
    /\ heap[InputPixels[2]].data = <<0, 2>>
    /\ heap[ret.value[2]].data[2] = ToF32(Bins - 1)

====
